---- MODULE Spec2Model ----
(***************************************************************************)
(* A model of three parts of the solar node:                               *)
(*   - the EBT replication session loop (replicator.rs `run`) together     *)
(*     with its MUXRPC handler (ebt.rs `EbtReplicateHandler`);             *)
(*   - the blob wants handler (blobs_wants.rs `BlobsWantsHandler`), two    *)
(*     connections sharing one blob store and one broker;                  *)
(*   - the key-value store's feed operations (kv.rs `KvStorage`).          *)
(* Each part has its own next-state relation and specification over the    *)
(* same variables; a part's actions leave the other parts' variables       *)
(* unchanged.                                                              *)
(***************************************************************************)
EXTENDS Integers, Sequences, FiniteSets, TLC

VARIABLES
    \* ---- EBT session (replicator.rs run + ebt.rs handler) ----
    session_role,       \* SessionRole of this session
    pc,                 \* "start" | "loop" | "done" (returned Ok) | "failed" (returned Err by `?`)
    active_request,     \* EbtReplicateHandler.active_request
    active_req_no,      \* run's Option<ReqNo>: <<>> is None, <<n>> is Some(n)
    session_initiated,  \* run's flag
    elapsed,            \* ebt_session_start.elapsed() >= session_wait_timeout
    ch_terminate,       \* external termination signal: "idle" | "ready" | "taken"
    ch_msg,             \* this actor's broker queue: own broadcasts not yet received
    net_up,             \* writes on the connection succeed
    broker_up,          \* sends to the broker succeed
    input,              \* the input selected by the last loop iteration
    written,            \* frames the last step handed to the framing layer
    published,          \* events the last step broadcast
    bcast,              \* every session-lifecycle event broadcast so far, in order
    terminated,         \* ch_terminated.send(Void) has happened
    steps,              \* inputs the loop has taken from the peer and other actors
    \* ---- blob wants handlers (blobs_wants.rs), one per connection ----
    handlers,           \* connection -> BlobsWantsHandler
    blob_store,         \* ids of the blobs BLOB_STORE holds
    queues,             \* connection -> broker messages delivered to it, not yet handled
    next_req_no,        \* connection -> next request number of its ApiCaller
    blob_input,         \* the connection and input of the last handler call
    blob_result,        \* what that call returned, wrote and sent
    forwarded,          \* connection -> blob ids it has forwarded a want for to its peer
    haves_sent,         \* connection -> blob ids it has announced a have for to its peer
    blob_steps,         \* response frames and store inserts so far
    \* ---- key-value store (kv.rs) ----
    db,                 \* the sled database, one map per key prefix
    id_changed,         \* per author, the number of IdChanged events sent to the broker
    kv_op,              \* the last store operation and its result
    sled_errors         \* store calls that sled has failed so far

ebtVars == <<session_role, pc, active_request, active_req_no, session_initiated,
             elapsed, ch_terminate, ch_msg, net_up, broker_up, input, written,
             published, bcast, terminated, steps>>

blobVars == <<handlers, blob_store, queues, next_req_no, blob_input, blob_result,
              forwarded, haves_sent, blob_steps>>

kvVars == <<db, id_changed, kv_op, sled_errors>>

vars == <<ebtVars, blobVars, kvVars>>

-----------------------------------------------------------------------------
(* Bounds of the model *)

\* Loop iterations explored per session.
MaxSteps == 2

\* Requests a peer sends in a session that is fed requests only.
MaxRequests == 3

\* Response frames and store inserts explored by the blob handlers.
MaxBlobSteps == 3

\* Highest sequence number of a message offered to the store.
MaxSeq == 2

\* Store calls that sled fails.
MaxSledErrors == 1

-----------------------------------------------------------------------------
(* Option<T> *)

None == <<>>
Some(x) == <<x>>
IsSome(o) == o # <<>>
Unwrap(o) == o[1]

-----------------------------------------------------------------------------
(* EBT: identities and inputs *)

\* connection_data.id of this session, and another connection's id.
connection_id == 1
ConnIds == {connection_id, connection_id + 1}

\* handshake.peer_pk.to_ssb_id() of this session, and another peer.
peer_ssb_id == "@peer"
PeerIds == {peer_ssb_id, "@other"}

Roles == {"Requester", "Responder"}

\* `version` of dto::EbtReplicate is an unsigned 16-bit integer; `!` on it is
\* the bitwise complement.
VersionModulus == 2 ^ 16
BitNot(v) == (VersionModulus - 1) - v

\* Versions a peer may send: the supported one, an older one, and the one
\* whose complement is 3.
Versions == {2, 3, VersionModulus - 4}
Formats == {"classic", "other"}

\* Request numbers a peer picks for its own requests.
PeerReqNos == {1, 2}
\* Request numbers on arriving frames (either sign).
NetReqNos == {-1, 1, 2}
\* Request number ebt_replicate_req_send returns (first request of the stream).
FirstReqNo == 1

Payloads == {"clock", "msg_val", "msg_kvt", "garbage"}

NoInput == [kind |-> "NoInput"]

NetInputs ==
    {[kind |-> "RpcRequest", method |-> "ebt.replicate", req_no |-> n,
      version |-> v, format |-> f] : n \in PeerReqNos, v \in Versions, f \in Formats}
    \cup {[kind |-> "RpcRequest", method |-> "other", req_no |-> n] : n \in PeerReqNos}
    \cup {[kind |-> "OtherRequest", req_no |-> n, payload |-> p] :
            n \in NetReqNos, p \in {"clock", "garbage"}}
    \cup {[kind |-> "RpcResponse", req_no |-> n, payload |-> p] :
            n \in NetReqNos, p \in Payloads}
    \cup {[kind |-> "CancelStreamResponse", req_no |-> n] : n \in NetReqNos}
    \cup {[kind |-> "ErrorResponse", req_no |-> n] : n \in NetReqNos}

\* EbtEvent values as they travel through the broker.
SessionInitiated(c, n, p, r) ==
    [kind |-> "SessionInitiated", conn |-> c, req_no |-> n, peer |-> p, role |-> r]
SessionConcluded(c, p) == [kind |-> "SessionConcluded", conn |-> c, peer |-> p]
SessionTimeout(c, p) == [kind |-> "SessionTimeout", conn |-> c, peer |-> p]
TerminateSession(c, r) == [kind |-> "TerminateSession", conn |-> c, role |-> r]
ErrorEvent(c, p, t) == [kind |-> "Error", conn |-> c, peer |-> p, text |-> t]
ReceivedClock(c, n, p) == [kind |-> "ReceivedClock", conn |-> c, req_no |-> n, peer |-> p]
ReceivedMessage == [kind |-> "ReceivedMessage"]

\* Broker messages published by other actors.
MsgInputs ==
    {SessionInitiated(c, n, p, r) : c \in ConnIds, n \in PeerReqNos, p \in PeerIds, r \in Roles}
    \cup {SessionConcluded(c, p) : c \in ConnIds, p \in {peer_ssb_id}}
    \cup {TerminateSession(c, r) : c \in ConnIds, r \in Roles}
    \cup {[kind |-> k, conn |-> c, req_no |-> n, role |-> r] :
            k \in {"SendClock", "SendMessage"}, c \in ConnIds, n \in PeerReqNos, r \in Roles}
    \cup {[kind |-> "OtherMessage"]}

-----------------------------------------------------------------------------
(* EBT handler (ebt.rs).  A handler call yields                            *)
(*   ret    : "Ok(false)" | "Ok(true)" | "Err"                             *)
(*   err    : the error text when ret = "Err"                              *)
(*   ar     : active_request after the call                               *)
(*   frames : calls made on the framing layer, with the request number     *)
(*            passed to it                                                 *)
(*   events : events broadcast through ch_broker                           *)

Frame(api, n, t) == [api |-> api, req_no |-> n, text |-> t]

Result(ret, err, ar, frames, events) ==
    [ret |-> ret, err |-> err, ar |-> ar, frames |-> frames, events |-> events]

\* A write on the connection: the frame goes out and the call continues,
\* or the write fails and the `?` returns the I/O error.
IoErr == "io error"
BrokerErr == "broker send error"

\* ebt.rs 219: `!args.version == 3`
VersionRejected(version) == BitNot(version) = 3

\* ebt.rs 224
FormatRejected(format) == format # "classic"

\* ebt.rs 199-249
recv_ebtreplicate(req, ar, netOk, brokerOk) ==
    IF VersionRejected(req.version) THEN
        IF netOk
        THEN Result("Err", "ebt version != 3", ar,
                    <<Frame("send_error", req.req_no, "ebt version != 3")>>, <<>>)
        ELSE Result("Err", IoErr, ar, <<>>, <<>>)
    ELSE IF FormatRejected(req.format) THEN
        IF netOk
        THEN Result("Err", "ebt format != classic", ar,
                    <<Frame("send_error", req.req_no, "ebt format != classic")>>, <<>>)
        ELSE Result("Err", IoErr, ar, <<>>, <<>>)
    ELSE
        IF brokerOk
        THEN Result("Ok(false)", "", req.req_no, <<>>,
                    <<SessionInitiated(connection_id, req.req_no, peer_ssb_id, "Responder")>>)
        ELSE Result("Err", BrokerErr, req.req_no, <<>>, <<>>)

\* A handler that leaves every request to other handlers.
IgnoreRequest(req, ar, netOk, brokerOk) == Result("Ok(false)", "", ar, <<>>, <<>>)

\* ebt.rs 181-196
recv_rpc_request(req, ar, netOk, brokerOk) ==
    IF req.method = "ebt.replicate"
    THEN recv_ebtreplicate(req, ar, netOk, brokerOk)
    ELSE Result("Ok(false)", "", ar, <<>>, <<>>)

\* ebt.rs 252-278
recv_other_request(op, ar, brokerOk) ==
    IF op.payload = "clock" THEN
        IF brokerOk
        THEN Result("Ok(false)", "", ar, <<>>,
                    <<ReceivedClock(connection_id, op.req_no, peer_ssb_id)>>)
        ELSE Result("Err", BrokerErr, ar, <<>>, <<>>)
    ELSE Result("Ok(false)", "", ar, <<>>, <<>>)

\* ebt.rs 295: the response belongs to the active request
KnownRequest(ar, req_no) == ar = req_no \/ ar = -req_no

\* A handler that takes every response on the active request for a clock.
recv_response_as_clock(op, ar, brokerOk) ==
    IF KnownRequest(ar, op.req_no) /\ brokerOk
    THEN Result("Ok(false)", "", ar, <<>>,
                <<ReceivedClock(connection_id, op.req_no, peer_ssb_id)>>)
    ELSE Result("Ok(false)", "", ar, <<>>, <<>>)

\* ebt.rs 282-337
recv_rpc_response(op, ar, brokerOk) ==
    IF KnownRequest(ar, op.req_no) THEN
        IF op.payload = "clock" THEN
            IF brokerOk
            THEN Result("Ok(false)", "", ar, <<>>,
                        <<ReceivedClock(connection_id, op.req_no, peer_ssb_id)>>)
            ELSE Result("Err", BrokerErr, ar, <<>>, <<>>)
        ELSE IF op.payload \in {"msg_val", "msg_kvt"} THEN
            IF brokerOk
            THEN Result("Ok(false)", "", ar, <<>>, <<ReceivedMessage>>)
            ELSE Result("Err", BrokerErr, ar, <<>>, <<>>)
        ELSE Result("Err", "invalid message", ar, <<>>, <<>>)
    ELSE Result("Ok(false)", "", ar, <<>>, <<>>)

\* ebt.rs 340-346
recv_cancelstream(req_no, ar, netOk) ==
    IF netOk
    THEN Result("Ok(true)", "", ar, <<Frame("send_stream_eof", -req_no, "")>>, <<>>)
    ELSE Result("Err", IoErr, ar, <<>>, <<>>)

\* ebt.rs 349-355
send_cancelstream(req_no, ar, netOk) ==
    IF netOk
    THEN Result("Ok(true)", "", ar, <<Frame("send_stream_eof", -req_no, "")>>, <<>>)
    ELSE Result("Err", IoErr, ar, <<>>, <<>>)

\* ebt.rs 359-363
recv_error_response(ar) == Result("Err", "peer error", ar, <<>>, <<>>)

\* ebt.rs 96-107
on_terminate_session(msg, ar, netOk) ==
    IF msg.conn = connection_id
    THEN send_cancelstream(IF msg.role = "Requester" THEN ar ELSE -ar, ar, netOk)
    ELSE Result("Ok(false)", "", ar, <<>>, <<>>)

\* A sign rule that ignores the session role.
SendSignPlain(role, req_no) == req_no

\* ebt.rs 119-122 and 154-157: the sign handed to the framing layer
SendSign(role, req_no) == IF role = "Requester" THEN -req_no ELSE req_no

\* ebt.rs 108-173
on_send(msg, ar, netOk) ==
    IF msg.conn = connection_id THEN
        IF netOk
        THEN Result("Ok(false)", "", ar,
                    <<Frame(IF msg.kind = "SendClock" THEN "ebt_clock_res_send"
                                                      ELSE "ebt_feed_res_send",
                            SendSign(msg.role, msg.req_no), "")>>, <<>>)
        ELSE Result("Err", IoErr, ar, <<>>, <<>>)
    ELSE Result("Ok(false)", "", ar, <<>>, <<>>)

\* ebt.rs 64-68: an outbound request was made before the handler was called
AdoptRequest(ar, req_opt) == IF IsSome(req_opt) THEN Unwrap(req_opt) ELSE ar

\* ebt.rs 53-178
handle(op, ar0, req_opt, netOk, brokerOk) ==
    LET ar == AdoptRequest(ar0, req_opt) IN
    CASE op.kind = "RpcRequest" -> recv_rpc_request(op, ar, netOk, brokerOk)
      [] op.kind = "OtherRequest" -> recv_other_request(op, ar, brokerOk)
      [] op.kind = "RpcResponse" -> recv_rpc_response(op, ar, brokerOk)
      [] op.kind = "CancelStreamResponse" -> recv_cancelstream(op.req_no, ar, netOk)
      [] op.kind = "ErrorResponse" -> recv_error_response(ar)
      [] op.kind = "TerminateSession" -> on_terminate_session(op, ar, netOk)
      [] op.kind \in {"SendClock", "SendMessage"} -> on_send(op, ar, netOk)
      [] OTHER -> Result("Ok(false)", "", ar, <<>>, <<>>)


-----------------------------------------------------------------------------
(* EBT session loop (replicator.rs run) *)

\* replicator.rs 115-119
ConcludesSession(in) == in.kind = "SessionConcluded" /\ in.conn = connection_id

\* replicator.rs 121-126
InitiatesSession(in) ==
    in.kind = "SessionInitiated" /\ in.peer = peer_ssb_id /\ in.role = "Responder"

\* replicator.rs 172-175
TimedOut(initiated, role, el) == ~initiated /\ role = "Responder" /\ el

\* The events of a step that are part of the session's lifecycle.
IsLifecycle(e) ==
    e.kind \in {"SessionInitiated", "SessionTimeout", "Error", "SessionConcluded"}

\* Broker fan-out: a broadcast is also delivered to the publishing actor's
\* own queue.  Of this session's own broadcasts only SessionInitiated is read
\* by the loop; the others come back as messages the handler ignores.
LoopsBack(e) == e.kind = "SessionInitiated"

\* replicator.rs 194-206: leave the loop, broadcast SessionConcluded,
\* acknowledge termination.  `evs` are the events the iteration broadcast.
Conclude(evs) ==
    IF broker_up
    THEN [pc |-> "done", events |-> Append(evs, SessionConcluded(connection_id, peer_ssb_id)),
          terminated |-> TRUE]
    ELSE [pc |-> "failed", events |-> evs, terminated |-> FALSE]

\* replicator.rs 135-192: what follows the handler call.
AfterHandle(r, initiated) ==
    CASE r.ret = "Ok(true)" -> Conclude(r.events)
      [] r.ret = "Err" ->
            IF broker_up
            THEN Conclude(Append(r.events, ErrorEvent(connection_id, peer_ssb_id, r.err)))
            ELSE [pc |-> "failed", events |-> r.events, terminated |-> FALSE]
      [] OTHER ->
            IF TimedOut(initiated, session_role, elapsed)
            THEN IF broker_up
                 THEN Conclude(Append(r.events, SessionTimeout(connection_id, peer_ssb_id)))
                 ELSE [pc |-> "failed", events |-> r.events, terminated |-> FALSE]
            ELSE [pc |-> "loop", events |-> r.events, terminated |-> FALSE]

\* replicator.rs 94-192: one iteration of the loop on input `in`; `queue` is
\* ch_msg once the input has been taken.
Iterate(in, queue) ==
    LET initiated == session_initiated \/ InitiatesSession(in)
        req_opt   == IF InitiatesSession(in) THEN Some(in.req_no) ELSE active_req_no
        r   == IF ConcludesSession(in)
               THEN Result("break", "", active_request, <<>>, <<>>)
               ELSE handle(in, active_request, req_opt, net_up, broker_up)
        out == IF ConcludesSession(in) THEN Conclude(<<>>) ELSE AfterHandle(r, initiated)
    IN  /\ input' = in
        /\ session_initiated' = initiated
        /\ active_req_no' = req_opt
        /\ active_request' = r.ar
        /\ written' = r.frames
        /\ published' = out.events
        /\ bcast' = bcast \o SelectSeq(out.events, IsLifecycle)
        /\ ch_msg' = queue \o SelectSeq(out.events, LoopsBack)
        /\ pc' = out.pc
        /\ terminated' = out.terminated

EbtInit ==
    /\ session_role = "Responder"
    /\ pc = "start"
    /\ active_request = 0
    /\ active_req_no = None
    /\ session_initiated = FALSE
    /\ elapsed = FALSE
    /\ ch_terminate = "idle"
    /\ ch_msg = <<>>
    /\ net_up = TRUE
    /\ broker_up = TRUE
    /\ input = NoInput
    /\ written = <<>>
    /\ published = <<>>
    /\ bcast = <<>>
    /\ terminated = FALSE
    /\ steps = 0

\* replicator.rs 22-92: run is called with `role`; the Requester sends the
\* replicate request.
Start(role) ==
    /\ pc = "start"
    /\ session_role' = role
    /\ IF role = "Requester"
       THEN IF net_up
            THEN /\ active_req_no' = Some(FirstReqNo)
                 /\ written' = <<Frame("ebt_replicate_req_send", FirstReqNo, "")>>
                 /\ pc' = "loop"
            ELSE /\ pc' = "failed"
                 /\ UNCHANGED <<active_req_no, written>>
       ELSE /\ pc' = "loop"
            /\ UNCHANGED <<active_req_no, written>>
    /\ UNCHANGED <<active_request, session_initiated, elapsed, ch_terminate,
                   ch_msg, net_up, broker_up, input, published, bcast, terminated, steps>>
    /\ UNCHANGED <<blobVars, kvVars>>

\* replicator.rs 99-106: the termination signal is ready and is selected first.
StepTerminate ==
    /\ pc = "loop"
    /\ ch_terminate = "ready"
    /\ ch_terminate' = "taken"
    /\ Iterate(TerminateSession(connection_id, session_role), ch_msg)
    /\ UNCHANGED <<session_role, elapsed, net_up, broker_up, steps>>
    /\ UNCHANGED <<blobVars, kvVars>>

\* A selection that takes a ready packet whether or not the termination
\* signal is ready.
StepNetUnbiased(p) ==
    /\ pc = "loop"
    /\ steps < MaxSteps
    /\ steps' = steps + 1
    /\ Iterate(p, ch_msg)
    /\ UNCHANGED <<session_role, elapsed, ch_terminate, net_up, broker_up>>
    /\ UNCHANGED <<blobVars, kvVars>>

\* replicator.rs 107-110: a packet is ready on the network stream.
StepNet(p) ==
    /\ pc = "loop"
    /\ ch_terminate # "ready"
    /\ steps < MaxSteps
    /\ steps' = steps + 1
    /\ Iterate(p, ch_msg)
    /\ UNCHANGED <<session_role, elapsed, ch_terminate, net_up, broker_up>>
    /\ UNCHANGED <<blobVars, kvVars>>

\* replicator.rs 107-110: the packet that is ready is a request of the peer.
StepRequest(p) ==
    /\ pc = "loop"
    /\ ch_terminate # "ready"
    /\ p.kind = "RpcRequest"
    /\ steps < MaxRequests
    /\ steps' = steps + 1
    /\ Iterate(p, ch_msg)
    /\ UNCHANGED <<session_role, elapsed, ch_terminate, net_up, broker_up>>
    /\ UNCHANGED <<blobVars, kvVars>>

\* replicator.rs 111-132: a broker message published by another actor.
StepMsg(m) ==
    /\ pc = "loop"
    /\ ch_terminate # "ready"
    /\ steps < MaxSteps
    /\ steps' = steps + 1
    /\ Iterate(m, ch_msg)
    /\ UNCHANGED <<session_role, elapsed, ch_terminate, net_up, broker_up>>
    /\ UNCHANGED <<blobVars, kvVars>>

\* replicator.rs 111-132: one of this session's own broadcasts comes back.
StepLoopback ==
    /\ pc = "loop"
    /\ ch_terminate # "ready"
    /\ ch_msg # <<>>
    /\ Iterate(Head(ch_msg), Tail(ch_msg))
    /\ UNCHANGED <<session_role, elapsed, ch_terminate, net_up, broker_up, steps>>
    /\ UNCHANGED <<blobVars, kvVars>>

\* session_wait_timeout seconds have passed since ebt_session_start.
Tick ==
    /\ pc \in {"start", "loop"}
    /\ ~elapsed
    /\ elapsed' = TRUE
    /\ UNCHANGED <<session_role, pc, active_request, active_req_no, session_initiated,
                   ch_terminate, ch_msg, net_up, broker_up, input, written, published,
                   bcast, terminated, steps>>
    /\ UNCHANGED <<blobVars, kvVars>>

\* The broker signals termination on ch_terminate.
Signal ==
    /\ pc \in {"start", "loop"}
    /\ ch_terminate = "idle"
    /\ ch_terminate' = "ready"
    /\ UNCHANGED <<session_role, pc, active_request, active_req_no, session_initiated,
                   elapsed, ch_msg, net_up, broker_up, input, written, published,
                   bcast, terminated, steps>>
    /\ UNCHANGED <<blobVars, kvVars>>

\* The connection breaks: later writes fail.
NetDown ==
    /\ pc \in {"start", "loop"}
    /\ net_up
    /\ net_up' = FALSE
    /\ UNCHANGED <<session_role, pc, active_request, active_req_no, session_initiated,
                   elapsed, ch_terminate, ch_msg, broker_up, input, written, published,
                   bcast, terminated, steps>>
    /\ UNCHANGED <<blobVars, kvVars>>

\* The broker's receiver is gone: later sends fail.
BrokerDown ==
    /\ pc \in {"start", "loop"}
    /\ broker_up
    /\ broker_up' = FALSE
    /\ UNCHANGED <<session_role, pc, active_request, active_req_no, session_initiated,
                   elapsed, ch_terminate, ch_msg, net_up, input, written, published,
                   bcast, terminated, steps>>
    /\ UNCHANGED <<blobVars, kvVars>>

\* A session whose peer sends requests only.
RequestNext ==
    \/ \E role \in Roles : Start(role)
    \/ \E p \in NetInputs : StepRequest(p)
    \/ StepLoopback

EbtNext ==
    \/ \E role \in Roles : Start(role)
    \/ StepTerminate
    \/ \E p \in NetInputs : StepNet(p)
    \/ \E m \in MsgInputs : StepMsg(m)
    \/ StepLoopback
    \/ Tick
    \/ Signal
    \/ NetDown
    \/ BrokerDown



-----------------------------------------------------------------------------
(* EBT session: properties *)

Count(seq, k) == Cardinality({i \in DOMAIN seq : seq[i].kind = k})
Has(seq, k) == \E i \in DOMAIN seq : seq[i].kind = k

\* The loop iteration just taken handled an ebt.replicate request.
IsReplicate(in) == in.kind = "RpcRequest" /\ in.method = "ebt.replicate"

\* C1: a Responder that handles an ebt.replicate request whose version is
\* not 3, with the connection and the broker working, writes the error frame
\* "ebt version != 3", ends the session with an Error event, publishes no
\* SessionInitiated and leaves active_request as it was.
C1_VersionRejected ==
    [][ ( /\ session_role = "Responder"
          /\ pc = "loop" /\ steps' = steps + 1
          /\ IsReplicate(input') /\ input'.version # 3
          /\ net_up /\ broker_up )
        => ( /\ written' = <<Frame("send_error", input'.req_no, "ebt version != 3")>>
             /\ \E i \in DOMAIN published' :
                    published'[i] = ErrorEvent(connection_id, peer_ssb_id, "ebt version != 3")
             /\ ~Has(published', "SessionInitiated")
             /\ active_request' = AdoptRequest(active_request, active_req_no)
             /\ pc' = "done" ) ]_vars

\* The request number of the session: the one the Requester's send returned,
\* or the one of the first SessionInitiated the Responder published.
SessionEstablished ==
    \/ session_role = "Requester" /\ pc # "start"
    \/ session_role = "Responder" /\ Has(bcast, "SessionInitiated")

\* C2: once the session is established and the handler has taken its
\* request number, every further input that leaves the session running -
\* a supported (version 3) ebt.replicate request included - leaves
\* active_request as it was.
C2_ActiveRequestConstant ==
    [][ ( /\ SessionEstablished /\ pc = "loop" /\ input # NoInput
          /\ pc' = "loop"
          /\ (IsReplicate(input') => input'.version = 3) )
        => active_request' = active_request ]_vars

\* The session's last two broadcasts are SessionTimeout, SessionConcluded.
TimeoutThenConcluded ==
    /\ Len(bcast) >= 2
    /\ bcast[Len(bcast) - 1].kind = "SessionTimeout"
    /\ bcast[Len(bcast)].kind = "SessionConcluded"

\* C3: a Responder session that has accepted no valid ebt.replicate request
\* when session_wait_timeout has elapsed eventually broadcasts SessionTimeout
\* and then SessionConcluded and terminates, whether or not any packet or
\* broker message arrives.  (A session that meanwhile ends for another
\* reason - termination signal, error, conclusion - is not held against the
\* claim.)
C3_ResponderTimeout ==
    (session_role = "Responder" /\ pc = "loop" /\ elapsed
        /\ ~Has(bcast, "SessionInitiated"))
    ~> ( \/ pc = "done" /\ TimeoutThenConcluded
         \/ pc \in {"done", "failed"} /\ ~Has(bcast, "SessionTimeout") )

\* C4: however run() ends, SessionConcluded has been broadcast exactly once
\* and termination has been acknowledged.
C4_AlwaysConcluded ==
    pc \in {"done", "failed"} => (Count(bcast, "SessionConcluded") = 1 /\ terminated)


\* The loop iteration taken in this step handled a network frame.
IsNetStep == pc = "loop" /\ steps' = steps + 1
                /\ input'.kind \in {"RpcRequest", "OtherRequest", "RpcResponse"}

\* C16: a network frame whose request number is neither active_request nor
\* its negation makes the handler broadcast no ReceivedClock and no
\* ReceivedMessage.
C16_OnlyActiveRequestReceived ==
    [][ ( /\ IsNetStep
          /\ input'.req_no # AdoptRequest(active_request, active_req_no)
          /\ input'.req_no # -AdoptRequest(active_request, active_req_no) )
        => (~Has(published', "ReceivedClock") /\ ~Has(published', "ReceivedMessage")) ]_vars

\* send_response of the framing layer: the request number a response frame
\* carries on the wire is the negation of the one it is given.
OnWire(req_no) == -req_no

\* The loop iteration taken in this step handled a SendClock or SendMessage
\* event addressed to this connection, with the connection working.
IsSendStep ==
    /\ pc = "loop" /\ steps' = steps + 1
    /\ input'.kind \in {"SendClock", "SendMessage"}
    /\ input'.conn = connection_id
    /\ net_up

IsTerminateStep == pc = "loop" /\ ch_terminate = "ready" /\ ch_terminate' = "taken"

\* The cancel-stream frame of a session: end-of-stream on active_request,
\* negated for a Requester.
CancelFrame(role, ar) ==
    Frame("send_stream_eof", IF role = "Requester" THEN -ar ELSE ar, "")

\* C18: when the termination signal fires the session handles no further
\* network packet or broker message; the iteration that takes the signal
\* writes exactly one end-of-stream frame on active_request with the sign of
\* its role (a frame can be written only while the connection is up), leaves
\* the loop, broadcasts SessionConcluded and acknowledges termination.
C18_TerminationSignal ==
    [][ ch_terminate # "idle"
        => /\ steps' = steps
           /\ ch_msg' = ch_msg
           /\ (input' # input => IsTerminateStep)
           /\ IsTerminateStep
                => /\ input' = TerminateSession(connection_id, session_role)
                   /\ net_up => written' = <<CancelFrame(session_role, active_request')>>
                   /\ pc' = "done"
                   /\ Len(bcast') = Len(bcast) + (IF net_up THEN 1 ELSE 2)
                   /\ bcast'[Len(bcast')] = SessionConcluded(connection_id, peer_ssb_id)
                   /\ terminated' ]_vars

\* The loop hands an input to the handler in this step.
IsHandleStep ==
    /\ pc = "loop"
    /\ \/ steps' = steps + 1
       \/ IsTerminateStep
       \/ ch_msg # <<>> /\ input' = Head(ch_msg) /\ Len(ch_msg') < Len(ch_msg)
    /\ ~ConcludesSession(input')

\* What the handler returned for the input of this step.
Returned == handle(input', active_request, active_req_no', net_up, broker_up)

\* C19: whenever the handler returns an error for an input, the session
\* broadcasts Error(connection, peer, text) exactly once and then
\* SessionConcluded, in this order, and processes no further input.
C19_ErrorThenConcluded ==
    [][ /\ (IsHandleStep /\ Returned.ret = "Err")
            => /\ Len(bcast') = Len(bcast) + 2
               /\ bcast'[Len(bcast') - 1] = ErrorEvent(connection_id, peer_ssb_id, Returned.err)
               /\ bcast'[Len(bcast')] = SessionConcluded(connection_id, peer_ssb_id)
               /\ Count(published', "Error") = 1
               /\ pc' = "done"
        /\ pc \in {"done", "failed"} => (input' = input /\ bcast' = bcast) ]_vars

\* The loop makes a selection in this step: an input is taken or the loop
\* is left.
IsSelection ==
    /\ pc = "loop"
    /\ (input' # input \/ steps' # steps \/ ch_msg' # ch_msg \/ pc' # pc
            \/ written' # written \/ published' # published)

\* C20: whenever the termination signal is ready at a selection it is the
\* input chosen, ahead of any ready packet or broker message, and once it is
\* chosen no frame other than the cancel-stream frame is started.
C20_TerminationPreempts ==
    [][ /\ (IsSelection /\ ch_terminate = "ready")
            => /\ ch_terminate' = "taken"
               /\ input' = TerminateSession(connection_id, session_role)
               /\ steps' = steps
               /\ written' \in {<<>>, <<CancelFrame(session_role, active_request')>>}
        /\ ch_terminate = "taken" => written' = written ]_vars

\* The signal was taken while a broker message was waiting on ch_msg, and
\* the cancel-stream frame is the only frame started.
C20_SignalTakenFirst ==
    /\ ch_terminate = "taken"
    /\ ch_msg # <<>>
    /\ steps < MaxSteps
    /\ input = TerminateSession(connection_id, session_role)
    /\ written = <<CancelFrame(session_role, active_request)>>

\* A session has been initiated on this connection: the request was sent as
\* Requester, or a valid request was accepted as Responder.
SessionActive ==
    \/ session_role = "Requester" /\ pc = "loop"
    \/ Has(bcast, "SessionInitiated")

\* A valid ebt.replicate request: version 3, format classic.
IsValidReplicate(in) == IsReplicate(in) /\ in.version = 3 /\ in.format = "classic"

\* C21: once a session has been initiated on the connection, a further valid
\* ebt.replicate request does not publish a second SessionInitiated.
C21_OneSessionPerConnection ==
    [][ (SessionActive /\ IsNetStep /\ IsValidReplicate(input'))
        => ~Has(published', "SessionInitiated") ]_vars

\* C22: a Responder that receives an ebt.replicate request with version 3
\* and a format other than "classic" writes the error frame "ebt format !=
\* classic" on the request's number, fails (the session ends, with that
\* text in its Error event), leaves active_request unchanged and publishes
\* no SessionInitiated.
C22_FormatRejected ==
    [][ ( /\ session_role = "Responder"
          /\ pc = "loop" /\ steps' = steps + 1
          /\ IsReplicate(input') /\ input'.version = 3 /\ input'.format # "classic"
          /\ net_up )
        => ( /\ written' = <<Frame("send_error", input'.req_no, "ebt format != classic")>>
             /\ pc' # "loop"
             /\ broker_up => \E i \in DOMAIN published' :
                    published'[i] = ErrorEvent(connection_id, peer_ssb_id, "ebt format != classic")
             /\ ~Has(published', "SessionInitiated")
             /\ active_request' = active_request ) ]_vars

\* C23: on a valid ebt.replicate request (version 3, format classic) with
\* request number n, with the broker reachable, the handler sets
\* active_request to n, broadcasts exactly one SessionInitiated(conn_id, n,
\* peer_id, Responder) and returns Ok(false): the session neither fails nor
\* is ended by the handler (it leaves the loop only through the timeout).
C23_ValidRequestAccepted ==
    [][ (IsNetStep /\ IsValidReplicate(input') /\ broker_up)
        => /\ active_request' = input'.req_no
           /\ written' = <<>>
           /\ Count(published', "SessionInitiated") = 1
           /\ published'[1] = SessionInitiated(connection_id, input'.req_no,
                                               peer_ssb_id, "Responder")
           /\ ~Has(published', "Error")
           /\ (pc' = "loop" \/ Has(published', "SessionTimeout")) ]_vars

\* A valid request has been accepted and the session goes on.
C23_Accepted ==
    /\ IsValidReplicate(input)
    /\ pc = "loop"
    /\ active_request = input.req_no
    /\ published = <<SessionInitiated(connection_id, input.req_no, peer_ssb_id, "Responder")>>

\* run() enters its loop in this step.
IsStartStep == pc = "start" /\ pc' = "loop"

\* The frames of `frames` that are ebt.replicate requests.
ReplicateRequests(frames) ==
    SelectSeq(frames, LAMBDA f : f.api = "ebt_replicate_req_send")

\* C24: a Requester sends exactly one ebt.replicate request, before it
\* processes any input, and from the first handled input onward
\* active_request is the positive request number that send returned (the
\* SessionConcluded message that ends the loop never reaches the handler); a
\* Responder sends no ebt.replicate request.
C24_RequesterSendsOnce ==
    [][ /\ (IsStartStep /\ session_role' = "Requester")
            => /\ written' = <<Frame("ebt_replicate_req_send", FirstReqNo, "")>>
               /\ FirstReqNo > 0
               /\ input' = NoInput
        /\ (IsStartStep /\ session_role' = "Responder") => written' = <<>>
        /\ (pc # "start" /\ written' # written) => ReplicateRequests(written') = <<>>
        /\ (session_role' = "Requester" /\ input' # NoInput /\ ~ConcludesSession(input'))
            => active_request' = FirstReqNo ]_vars

\* The Responder accepted a request and its session went on: the timeout
\* had not elapsed when the request was accepted.
AcceptedInTime ==
    session_role = "Responder" /\ pc = "loop" /\ Has(bcast, "SessionInitiated")

\* C27: a Responder that accepted a valid ebt.replicate request before the
\* timeout elapsed never broadcasts SessionTimeout afterwards, however the
\* return of its SessionInitiated through the broker and further inputs are
\* interleaved with the timeout instant.
C27_NoTimeoutAfterAccept ==
    [][ AcceptedInTime => ~Has(published', "SessionTimeout") ]_vars

\* The packet handled in this step is a cancel-stream or error response of
\* a stream other than the session's.
IsForeignClose ==
    /\ pc = "loop" /\ steps' = steps + 1
    /\ input'.kind \in {"CancelStreamResponse", "ErrorResponse"}
    /\ ~KnownRequest(AdoptRequest(active_request, active_req_no), input'.req_no)

\* C28: a cancel-stream response or an error response whose request number
\* does not match active_request does not end the session: no frame is
\* written for it, and neither Error nor SessionConcluded is broadcast because
\* of it (the session goes on, or ends by its timeout).
C28_ForeignCloseIgnored ==
    [][ IsForeignClose
        => /\ written' = <<>>
           /\ ~Has(published', "Error")
           /\ (pc' = "loop" \/ Has(published', "SessionTimeout")) ]_vars

\* The broker message handled in this step is a SessionInitiated event
\* published for another connection.
IsForeignInitiated ==
    /\ pc = "loop" /\ steps' = steps + 1
    /\ input'.kind = "SessionInitiated"
    /\ input'.conn # connection_id

\* C30: a SessionInitiated event published for a different connection id -
\* even one to the same peer identity - leaves this session's active request
\* number and its session_initiated flag unchanged.
C30_OwnConnectionOnly ==
    [][ IsForeignInitiated
        => /\ active_req_no' = active_req_no
           /\ session_initiated' = session_initiated
           /\ active_request' = AdoptRequest(active_request, active_req_no) ]_vars

\* The packet handled in this step is a response on the active request, and
\* the broker is reachable.
IsActiveResponse ==
    /\ pc = "loop" /\ steps' = steps + 1
    /\ input'.kind = "RpcResponse"
    /\ KnownRequest(AdoptRequest(active_request, active_req_no), input'.req_no)
    /\ broker_up

\* C34: for a response frame on the active request exactly one outcome
\* occurs: a payload that reads as a vector clock is broadcast as
\* ReceivedClock; one that reads as a message value or, failing that, as a
\* KVT is broadcast as ReceivedMessage; one that reads as none of them makes
\* the handler fail with neither event broadcast.
C34_ResponseOutcome ==
    [][ IsActiveResponse
        => LET clocks == Count(published', "ReceivedClock")
               msgs == Count(published', "ReceivedMessage")
               failed == Has(published', "Error")
           IN /\ input'.payload = "clock"
                    => /\ published'[1] = ReceivedClock(connection_id, input'.req_no, peer_ssb_id)
                       /\ clocks = 1 /\ msgs = 0 /\ ~failed
              /\ input'.payload \in {"msg_val", "msg_kvt"}
                    => /\ published'[1] = ReceivedMessage
                       /\ clocks = 0 /\ msgs = 1 /\ ~failed
              /\ input'.payload = "garbage"
                    => /\ clocks = 0 /\ msgs = 0 /\ failed
                       /\ pc' = "done" ]_vars

\* A message sent as a KVT on the active request has been broadcast.
C34_KvtReceived ==
    /\ input.kind = "RpcResponse" /\ input.payload = "msg_kvt"
    /\ active_request # 0
    /\ KnownRequest(active_request, input.req_no)
    /\ published = <<ReceivedMessage>>
    /\ pc = "loop"

\* The broker message handled in this step is a SendClock or SendMessage
\* event addressed to another connection.
IsForeignSend ==
    /\ pc = "loop" /\ steps' = steps + 1
    /\ input'.kind \in {"SendClock", "SendMessage"}
    /\ input'.conn # connection_id

\* C35: a SendClock or SendMessage event whose connection id differs from
\* the handler's causes no frame to be written and leaves the handler state
\* unchanged, even when its request number equals active_request.  (A
\* handler that has not yet taken a request number takes the Requester's at
\* its first input, whatever the input.)
C35_ForeignSendIgnored ==
    [][ IsForeignSend
        => /\ written' = <<>>
           /\ (active_request' = active_request \/ active_request = 0)
           /\ active_req_no' = active_req_no
           /\ session_initiated' = session_initiated
           /\ ~Has(published', "Error") ]_vars

-----------------------------------------------------------------------------
(* Blob wants handler (blobs_wants.rs): data *)

\* The connection actors of the node.
Conns == {"A", "B"}

\* Blob ids peers talk about.
Blobs == {"&b1", "&b2"}
\* The id that bytes which are no wanted blob hash to.
OtherHash == "&other"
BlobIds == Blobs \cup {OtherHash}

\* Wants (blobs_wants.rs 25-30)
Pending == [st |-> "Pending", req_no |-> 0]
Requested(n) == [st |-> "Requested", req_no |-> n]
Available == [st |-> "Available", req_no |-> 0]

\* BlobsWantsHandler::default (blobs_wants.rs 97-105); `peer_wants` is a map,
\* here a function whose domain is the set of keys.
NewHandler ==
    [initialized |-> FALSE, my_wants_req_no |-> None, peer_wants_req_no |-> None,
     peer_wants |-> <<>>, crashed |-> FALSE]

Distances == {0}

\* JSON maps blob id -> integer (wants: distance; haves: size).
Maps == UNION {[ids -> Distances] : ids \in SUBSET Blobs}

\* Bodies of response frames: a JSON map, or raw bytes with their content hash.
BlobData ==
    {[kind |-> "map", map |-> m] : m \in Maps}
    \cup {[kind |-> "bytes", hash |-> b] : b \in Blobs}

\* blob_hash_id of a body
BlobHashId(data) == IF data.kind = "bytes" THEN data.hash ELSE OtherHash

\* Request numbers the peer picks for its blobs.createWants request: one that
\* equals the number of our own createWants request, one that equals none of
\* ours.
PeerWantsReqNos == {1, 4}
\* Request numbers on response frames arriving for the blob handler.
BlobReqNos == {1, 2, 4}

BlobNetInputs ==
    {[kind |-> "RpcRequest", method |-> m, req_no |-> n] :
        m \in {"blobs.createWants", "other"}, n \in PeerWantsReqNos}
    \cup {[kind |-> "RpcResponse", req_no |-> n, data |-> d] : n \in BlobReqNos, d \in BlobData}
    \cup {[kind |-> "ErrorResponse", req_no |-> n] : n \in BlobReqNos}

RpcBlobsWants(m) == [kind |-> "RpcBlobsWants", ids |-> m]
StoreBlob(b) == [kind |-> "StoreBlob", blob_id |-> b]
TimerInput == [kind |-> "Timer"]

\* size_of a stored blob
SizeOf(b) == IF b = "&b1" THEN 5 ELSE 7

\* Orders in which a map's keys may be iterated.
Orders == {o \in [1..Cardinality(Blobs) -> Blobs] : \A b \in Blobs : \E i \in DOMAIN o : o[i] = b}

-----------------------------------------------------------------------------
(* Blob wants handler: the handler.  A call yields                         *)
(*   h      : the handler after the call (crashed when an unwrap panicked)  *)
(*   ret    : "Ok(true)" | "Ok(false)" | "Err" | "panic"                    *)
(*   frames : frames written, events : broker events sent                  *)
(*   store  : the blob store after the call                                *)
(*   next   : the next request number of the connection's ApiCaller        *)

BResult(h, ret, frames, events, store, next) ==
    [h |-> h, ret |-> ret, frames |-> frames, events |-> events, store |-> store, next |-> next]

Panicked(h, store, next) ==
    BResult([h EXCEPT !.crashed = TRUE], "panic", <<>>, <<>>, store, next)

\* A key test that ignores the wants table.
AnyKey(h, b) == TRUE

\* blobs_wants.rs 207, 224: peer_wants.contains_key
ContainsKey(h, b) == b \in DOMAIN h.peer_wants

\* A handler that records the number of the latest createWants request.
recv_create_wants_last(h, req_no, store, next) ==
    BResult([h EXCEPT !.peer_wants_req_no = Some(req_no)], "Ok(true)", <<>>, <<>>, store, next)

\* blobs_wants.rs 181-195
recv_create_wants(h, req_no, store, next) ==
    BResult(IF h.peer_wants_req_no = None
            THEN [h EXCEPT !.peer_wants_req_no = Some(req_no)] ELSE h,
            "Ok(true)", <<>>, <<>>, store, next)

\* blobs_wants.rs 205-209
ForwardedWants(h, broadcast) ==
    [b \in {x \in DOMAIN broadcast : ~ContainsKey(h, x)} |-> broadcast[b]]

\* blobs_wants.rs 197-221
event_wants_broadcast(h, broadcast, store, next) ==
    IF h.my_wants_req_no = None THEN Panicked(h, store, next)
    ELSE BResult(h, "Ok(true)",
                 <<[api |-> "send_response", req_no |-> Unwrap(h.my_wants_req_no),
                    body |-> ForwardedWants(h, broadcast)]>>, <<>>, store, next)

\* A handler that lets every StoreBlob event pass without an announcement.
stoblob_ignored(h, blob_id, store, next) == BResult(h, "Ok(true)", <<>>, <<>>, store, next)

\* blobs_wants.rs 223-239
event_stoblob_added(h, blob_id, store, next) ==
    IF ContainsKey(h, blob_id) THEN
        IF h.peer_wants_req_no = None THEN Panicked(h, store, next)
        ELSE BResult(h, "Ok(true)",
                     <<[api |-> "send_response", req_no |-> Unwrap(h.peer_wants_req_no),
                        body |-> [b \in {blob_id} |-> 1]]>>, <<>>, store, next)
    ELSE BResult(h, "Ok(true)", <<>>, <<>>, store, next)

\* blobs_wants.rs 258-265: the table after the loop
WantsInserted(h, wants, store) ==
    LET missing == {b \in DOMAIN wants : b \notin store}
    IN [b \in DOMAIN h.peer_wants \cup missing |->
            IF b \in missing THEN Pending ELSE h.peer_wants[b]]

\* blobs_wants.rs 241-288
recv_wants(h, data, store, next) ==
    IF data.kind # "map" THEN BResult(h, "Err", <<>>, <<>>, store, next)
    ELSE
        LET wants == data.map
            haves == [b \in {x \in DOMAIN wants : x \in store} |-> SizeOf(b)]
            broadcast == [b \in {x \in DOMAIN wants : x \notin store} |-> wants[b] + 1]
            h1 == [h EXCEPT !.peer_wants = WantsInserted(h, wants, store)]
        IN IF h.peer_wants_req_no = None THEN Panicked(h1, store, next)
           ELSE BResult(h1, "Ok(true)",
                        <<[api |-> "send_response", req_no |-> Unwrap(h.peer_wants_req_no),
                           body |-> haves]>>,
                        <<RpcBlobsWants(broadcast)>>, store, next)

\* blobs_wants.rs 303: the announced ids a blobs.get is issued for
Fetched(h, haves) == {b \in DOMAIN haves : ContainsKey(h, b)}

\* The ids of `ids` in the order `order` visits them.
InOrder(order, ids) == SelectSeq(order, LAMBDA b : b \in ids)

\* blobs_wants.rs 290-312; `order` is the iteration order of the haves map.
recv_haves(h, data, store, next, order) ==
    IF data.kind # "map" THEN BResult(h, "Err", <<>>, <<>>, store, next)
    ELSE
        LET seq == InOrder(order, Fetched(h, data.map))
            num(b) == next + (CHOOSE i \in DOMAIN seq : seq[i] = b) - 1
        IN BResult([h EXCEPT !.peer_wants =
                        [b \in DOMAIN h.peer_wants |->
                            IF b \in Fetched(h, data.map) THEN Requested(num(b))
                            ELSE h.peer_wants[b]]],
                   "Ok(true)",
                   [i \in DOMAIN seq |->
                        [api |-> "blobs_get_req_send", req_no |-> next + i - 1, key |-> seq[i]]],
                   <<>>, store, next + Len(seq))

\* blobs_wants.rs 137-141
IsRequested(h, req_no) ==
    \E b \in DOMAIN h.peer_wants : h.peer_wants[b] = Requested(req_no)

\* BlobStorage::insert: the bytes are stored under their content hash and the
\* store emits StoreBlob for that id.
blob_insert(store, data) ==
    [store |-> store \cup {BlobHashId(data)}, events |-> <<StoreBlob(BlobHashId(data))>>]

\* blobs_wants.rs 314-340; `b` is the entry `find` returns.  A hash that is
\* not `b` is logged (lines 329-334) and the call goes on.
recv_blobs_get(h, b, data, store, next) ==
    BResult([h EXCEPT !.peer_wants[b] = Available], "Ok(true)", <<>>,
            blob_insert(store, data).events, blob_insert(store, data).store, next)

Unhandled(h, store, next) == BResult(h, "Ok(false)", <<>>, <<>>, store, next)

\* A handler that opens a createWants stream on every Timer input.
on_timer_always(h, store, next) ==
    BResult([h EXCEPT !.my_wants_req_no = Some(next), !.initialized = TRUE],
            "Ok(false)",
            <<[api |-> "blob_create_wants_req_send", req_no |-> next]>>, <<>>,
            store, next + 1)

\* blobs_wants.rs 161-169
on_timer(h, store, next) ==
    IF ~h.initialized
    THEN BResult([h EXCEPT !.my_wants_req_no = Some(next), !.initialized = TRUE],
                 "Ok(false)",
                 <<[api |-> "blob_create_wants_req_send", req_no |-> next]>>, <<>>,
                 store, next + 1)
    ELSE Unhandled(h, store, next)

\* A handler that leaves every error response to the other handlers.
blob_handle_errors_passed(h, op, store, next, order, b) ==
    CASE op.kind = "RpcRequest" ->
            IF op.method = "blobs.createWants"
            THEN recv_create_wants(h, op.req_no, store, next)
            ELSE Unhandled(h, store, next)
      [] op.kind = "RpcResponse" ->
            IF h.my_wants_req_no = Some(op.req_no) THEN recv_wants(h, op.data, store, next)
            ELSE IF h.peer_wants_req_no = Some(op.req_no)
                 THEN recv_haves(h, op.data, store, next, order)
            ELSE IF IsRequested(h, op.req_no)
                 THEN recv_blobs_get(h, b, op.data, store, next)
            ELSE Unhandled(h, store, next)
      [] op.kind = "ErrorResponse" -> Unhandled(h, store, next)
      [] op.kind = "RpcBlobsWants" -> event_wants_broadcast(h, op.ids, store, next)
      [] op.kind = "StoreBlob" -> event_stoblob_added(h, op.blob_id, store, next)
      [] op.kind = "Timer" -> on_timer(h, store, next)
      [] OTHER -> Unhandled(h, store, next)

\* blobs_wants.rs 117-174; `order` and `b` resolve the map iteration orders.
blob_handle(h, op, store, next, order, b) ==
    CASE op.kind = "RpcRequest" ->
            IF op.method = "blobs.createWants"
            THEN recv_create_wants(h, op.req_no, store, next)
            ELSE Unhandled(h, store, next)
      [] op.kind = "RpcResponse" ->
            IF h.my_wants_req_no = Some(op.req_no) THEN recv_wants(h, op.data, store, next)
            ELSE IF h.peer_wants_req_no = Some(op.req_no)
                 THEN recv_haves(h, op.data, store, next, order)
            ELSE IF IsRequested(h, op.req_no)
                 THEN recv_blobs_get(h, b, op.data, store, next)
            ELSE Unhandled(h, store, next)
      [] op.kind = "ErrorResponse" ->
            IF Some(op.req_no) = h.my_wants_req_no \/ Some(op.req_no) = h.peer_wants_req_no
            THEN BResult(h, "Ok(true)", <<>>, <<>>, store, next)
            ELSE Unhandled(h, store, next)
      [] op.kind = "RpcBlobsWants" -> event_wants_broadcast(h, op.ids, store, next)
      [] op.kind = "StoreBlob" -> event_stoblob_added(h, op.blob_id, store, next)
      [] op.kind = "Timer" -> on_timer(h, store, next)
      [] OTHER -> Unhandled(h, store, next)


-----------------------------------------------------------------------------
(* Blob wants handlers: the connection actors and the broker *)

\* The value of blob_input when the last step was no handler call.
NoCall == [conn |-> "none", op |-> NoInput]

BlobInit ==
    /\ handlers = [c \in Conns |-> NewHandler]
    /\ blob_store = {}
    /\ queues = [c \in Conns |-> <<>>]
    /\ next_req_no = [c \in Conns |-> 1]
    /\ blob_input = NoCall
    /\ blob_result = [ret |-> "Ok(false)", frames |-> <<>>, events |-> <<>>]
    /\ forwarded = [c \in Conns |-> {}]
    /\ haves_sent = [c \in Conns |-> {}]
    /\ blob_steps = 0

\* The entries `find` may return for a payload on `req_no` (blobs_wants.rs 322-326).
FoundEntries(h, op) ==
    IF op.kind = "RpcResponse" /\ IsRequested(h, op.req_no)
    THEN {b \in DOMAIN h.peer_wants : h.peer_wants[b] = Requested(op.req_no)}
    ELSE {OtherHash}

\* The orders in which the call may iterate a map where the order shows
\* (blobs_wants.rs 302: the request numbers of the blobs.get requests).
IterationOrders(h, op) ==
    IF op.kind = "RpcResponse" /\ h.my_wants_req_no # Some(op.req_no)
        /\ h.peer_wants_req_no = Some(op.req_no)
    THEN Orders
    ELSE {CHOOSE o \in Orders : TRUE}

\* Blob ids of the frames a call wrote on the request number `n`.
Announced(frames, n) ==
    UNION {DOMAIN frames[i].body :
            i \in {j \in DOMAIN frames : frames[j].api = "send_response" /\ n = Some(frames[j].req_no)}}

\* Connection `c` hands `op` to its handler; `rest` is its queue once the
\* input is taken.  The broker delivers what the call broadcast to every
\* connection actor, the caller included.
BlobCall(c, op, rest) ==
    /\ ~handlers[c].crashed
    /\ \E order \in IterationOrders(handlers[c], op), b \in FoundEntries(handlers[c], op) :
        LET h == handlers[c]
            r == blob_handle(h, op, blob_store, next_req_no[c], order, b)
        IN  /\ handlers' = [handlers EXCEPT ![c] = r.h]
            /\ blob_store' = r.store
            /\ next_req_no' = [next_req_no EXCEPT ![c] = r.next]
            /\ queues' = [d \in Conns |-> (IF d = c THEN rest ELSE queues[d]) \o r.events]
            /\ blob_input' = [conn |-> c, op |-> op]
            /\ blob_result' = [ret |-> r.ret, frames |-> r.frames, events |-> r.events]
            /\ forwarded' = [forwarded EXCEPT ![c] =
                    @ \cup (IF op.kind = "RpcBlobsWants"
                            THEN Announced(r.frames, h.my_wants_req_no) ELSE {})]
            /\ haves_sent' = [haves_sent EXCEPT ![c] =
                    @ \cup (IF op.kind \in {"RpcResponse", "StoreBlob"}
                            THEN Announced(r.frames, h.peer_wants_req_no) ELSE {})]

\* The connection's timer ticks.
BlobTimer(c) ==
    /\ BlobCall(c, TimerInput, queues[c])
    /\ UNCHANGED blob_steps
    /\ UNCHANGED <<ebtVars, kvVars>>

\* A request frame arrives from the peer.
BlobRequest(c, p) ==
    /\ p.kind = "RpcRequest"
    /\ BlobCall(c, p, queues[c])
    /\ UNCHANGED blob_steps
    /\ UNCHANGED <<ebtVars, kvVars>>

\* A response or error frame arrives from the peer.
BlobResponse(c, p) ==
    /\ p.kind # "RpcRequest"
    /\ blob_steps < MaxBlobSteps
    /\ blob_steps' = blob_steps + 1
    /\ BlobCall(c, p, queues[c])
    /\ UNCHANGED <<ebtVars, kvVars>>

\* A broker message reaches the connection.
BlobMsg(c) ==
    /\ queues[c] # <<>>
    /\ BlobCall(c, Head(queues[c]), Tail(queues[c]))
    /\ UNCHANGED blob_steps
    /\ UNCHANGED <<ebtVars, kvVars>>

\* Another actor inserts a blob into the store, which emits StoreBlob.
LocalInsert(b) ==
    /\ blob_steps < MaxBlobSteps
    /\ blob_steps' = blob_steps + 1
    /\ blob_store' = blob_store \cup {b}
    /\ queues' = [d \in Conns |-> Append(queues[d], StoreBlob(b))]
    /\ blob_input' = NoCall
    /\ UNCHANGED <<handlers, next_req_no, blob_result, forwarded, haves_sent>>
    /\ UNCHANGED <<ebtVars, kvVars>>

\* Another connection's handler broadcasts the wants it could not satisfy.
RemoteWants(m) ==
    /\ blob_steps < MaxBlobSteps
    /\ blob_steps' = blob_steps + 1
    /\ queues' = [d \in Conns |-> Append(queues[d], RpcBlobsWants(m))]
    /\ blob_input' = NoCall
    /\ UNCHANGED <<handlers, blob_store, next_req_no, blob_result, forwarded, haves_sent>>
    /\ UNCHANGED <<ebtVars, kvVars>>

\* The connection that BlobSpec follows.
Solo == {"A"}

BlobNext ==
    \/ \E c \in Solo : BlobTimer(c)
    \/ \E c \in Solo, p \in BlobNetInputs : BlobRequest(c, p)
    \/ \E c \in Solo, p \in BlobNetInputs : BlobResponse(c, p)
    \/ \E c \in Solo : BlobMsg(c)
    \/ \E b \in Blobs : LocalInsert(b)
    \/ \E m \in Maps : RemoteWants(m)

\* One connection and the local blob store: the peer's frames, the
\* connection's timer and broker queue, and local inserts.
InsertNext ==
    \/ \E c \in Solo : BlobTimer(c)
    \/ \E c \in Solo, p \in BlobNetInputs : BlobRequest(c, p)
    \/ \E c \in Solo, p \in BlobNetInputs : BlobResponse(c, p)
    \/ \E c \in Solo : BlobMsg(c)
    \/ \E b \in Blobs : LocalInsert(b)

\* Frames of a peer that follows the protocol for one blob: its
\* createWants request, a wants or haves announcement naming the blob, and
\* blob bytes.
PairBlob == "&b1"
PairInputs ==
    {p \in BlobNetInputs :
        \/ p.kind = "RpcRequest" /\ p.method = "blobs.createWants" /\ p.req_no = 4
        \/ p.kind = "RpcResponse" /\ p.data.kind = "map" /\ DOMAIN p.data.map = {PairBlob}
        \/ p.kind = "RpcResponse" /\ p.data.kind = "bytes"}

PairNext ==
    \/ \E c \in Conns : BlobTimer(c)
    \/ \E c \in Conns, p \in PairInputs : BlobRequest(c, p)
    \/ \E c \in Conns, p \in PairInputs : BlobResponse(c, p)
    \/ \E c \in Conns : BlobMsg(c)

-----------------------------------------------------------------------------
(* Blob wants handlers: properties *)

\* C5: every blob id whose wants-table entry is Available, on any
\* connection, is in the blob store under that id.
C5_AvailableIsStored ==
    \A c \in Conns : \A b \in DOMAIN handlers[c].peer_wants :
        handlers[c].peer_wants[b] = Available => b \in blob_store

\* The last step was connection `c` receiving a haves announcement: a JSON
\* response on the request number of the peer's createWants; `h` is the
\* handler before the call.
IsHavesCall(c, h, in) ==
    /\ in.conn = c
    /\ in.op.kind = "RpcResponse"
    /\ in.op.data.kind = "map"
    /\ h.my_wants_req_no # Some(in.op.req_no)
    /\ h.peer_wants_req_no = Some(in.op.req_no)

\* The keys of the blobs.get requests among `frames`.
GetKeys(frames) ==
    {frames[i].key : i \in {j \in DOMAIN frames : frames[j].api = "blobs_get_req_send"}}

\* C6: on a haves announcement the handler issues blobs.get exactly for the
\* announced ids whose entry is Pending and sets those entries to
\* Requested(request number of that blobs.get); every other entry is left
\* as it was.
C6_OnlyPendingFetched ==
    [][ \A c \in Conns :
        (~handlers[c].crashed /\ IsHavesCall(c, handlers[c], blob_input'))
        => LET h == handlers[c]
               announced == DOMAIN blob_input'.op.data.map
               pending == {b \in announced \cap DOMAIN h.peer_wants : h.peer_wants[b] = Pending}
               frames == blob_result'.frames
           IN /\ GetKeys(frames) = pending
              /\ DOMAIN handlers'[c].peer_wants = DOMAIN h.peer_wants
              /\ \A b \in DOMAIN h.peer_wants :
                    IF b \in pending
                    THEN \E i \in DOMAIN frames :
                            /\ frames[i].api = "blobs_get_req_send"
                            /\ frames[i].key = b
                            /\ handlers'[c].peer_wants[b] = Requested(frames[i].req_no)
                    ELSE handlers'[c].peer_wants[b] = h.peer_wants[b] ]_vars

\* C7: once connection A holds peer1's want for a blob the node lacks and
\* connection B has forwarded that want to peer2, a haves announcement of
\* peer2 naming the blob makes connection B issue a blobs.get for it.
C7_ForwardedWantFetched ==
    [][ ( /\ ~handlers["B"].crashed
          /\ IsHavesCall("B", handlers["B"], blob_input')
          /\ PairBlob \in DOMAIN blob_input'.op.data.map
          /\ PairBlob \in DOMAIN handlers["A"].peer_wants
          /\ handlers["A"].peer_wants[PairBlob] = Pending
          /\ PairBlob \in forwarded["B"]
          /\ PairBlob \notin blob_store )
        => PairBlob \in GetKeys(blob_result'.frames) ]_vars

\* The place of a wants-table entry in the lifecycle
\* Pending -> Requested -> Available.
Stage(w) == CASE w.st = "Pending" -> 0 [] w.st = "Requested" -> 1 [] OTHER -> 2

\* C12: no handler call moves a wants-table entry backwards: an entry stays
\* in the table and its stage never decreases.
C12_EntriesMoveForward ==
    [][ \A c \in Conns : \A b \in DOMAIN handlers[c].peer_wants :
            /\ b \in DOMAIN handlers'[c].peer_wants
            /\ Stage(handlers'[c].peer_wants[b]) >= Stage(handlers[c].peer_wants[b]) ]_vars

\* The last step was connection `c` receiving a wants announcement: a JSON
\* response on the request number of its own createWants; `h` is the
\* handler before the call.
IsWantsCall(c, h, in) ==
    /\ in.conn = c
    /\ in.op.kind = "RpcResponse"
    /\ in.op.data.kind = "map"
    /\ h.my_wants_req_no = Some(in.op.req_no)

\* C13: on a wants announcement every announced id the store holds is in
\* the one haves frame written on peer_wants_req_no, with its size; every
\* other announced id becomes Pending and is in the one RpcBlobsWants event
\* broadcast, with its distance plus 1; nothing else is written or broadcast
\* and no other entry changes.
C13_WantsAnswered ==
    [][ \A c \in Conns :
        (~handlers[c].crashed /\ IsWantsCall(c, handlers[c], blob_input'))
        => LET h == handlers[c]
               wants == blob_input'.op.data.map
               held == {b \in DOMAIN wants : b \in blob_store}
               lacking == DOMAIN wants \ held
               frames == blob_result'.frames
           IN /\ Len(frames) = 1
              /\ frames[1].api = "send_response"
              /\ h.peer_wants_req_no = Some(frames[1].req_no)
              /\ frames[1].body = [b \in held |-> SizeOf(b)]
              /\ blob_result'.events = <<RpcBlobsWants([b \in lacking |-> wants[b] + 1])>>
              /\ DOMAIN handlers'[c].peer_wants = DOMAIN h.peer_wants \cup lacking
              /\ \A b \in lacking : handlers'[c].peer_wants[b] = Pending
              /\ \A b \in DOMAIN h.peer_wants \ lacking :
                    handlers'[c].peer_wants[b] = h.peer_wants[b] ]_vars

\* The last step was connection `c` handling a broker message of `kind`.
IsEventCall(c, in, kind) == in.conn = c /\ in.op.kind = kind

\* C14: on an RpcBlobsWants event a connection writes one frame on
\* my_wants_req_no holding exactly the announced ids that are not in its own
\* wants table, each with the distance of the event; it writes nothing else
\* and its wants table stays as it was.
C14_WantsForwarded ==
    [][ \A c \in Conns :
        (~handlers[c].crashed /\ IsEventCall(c, blob_input', "RpcBlobsWants"))
        => LET h == handlers[c]
               ids == blob_input'.op.ids
               unknown == {b \in DOMAIN ids : b \notin DOMAIN h.peer_wants}
               frames == blob_result'.frames
           IN /\ Len(frames) = 1
              /\ frames[1].api = "send_response"
              /\ h.my_wants_req_no = Some(frames[1].req_no)
              /\ frames[1].body = [b \in unknown |-> ids[b]]
              /\ handlers'[c].peer_wants = h.peer_wants ]_vars

\* C15: on a StoreBlob event a connection writes the have {blob_id: 1} on
\* peer_wants_req_no when the blob id is in its wants table and writes
\* nothing when it is not; the wants table stays as it was.
C15_StoredBlobAnnounced ==
    [][ \A c \in Conns :
        (~handlers[c].crashed /\ IsEventCall(c, blob_input', "StoreBlob"))
        => LET h == handlers[c]
               blob_id == blob_input'.op.blob_id
               frames == blob_result'.frames
           IN /\ handlers'[c].peer_wants = h.peer_wants
              /\ IF blob_id \in DOMAIN h.peer_wants
                 THEN /\ Len(frames) = 1
                      /\ frames[1].api = "send_response"
                      /\ h.peer_wants_req_no = Some(frames[1].req_no)
                      /\ frames[1].body = [b \in {blob_id} |-> 1]
                 ELSE frames = <<>> ]_vars

\* A connection holding a want for a blob has just announced it on the
\* StoreBlob event for that blob.
C15_HaveAnnounced ==
    \E c \in Conns :
        /\ IsEventCall(c, blob_input, "StoreBlob")
        /\ blob_input.op.blob_id \in DOMAIN handlers[c].peer_wants
        /\ Len(blob_result.frames) = 1

\* The request numbers the handler has recorded for its two channels.
RecordedChannels(h) ==
    (IF IsSome(h.my_wants_req_no) THEN {Unwrap(h.my_wants_req_no)} ELSE {})
    \cup (IF IsSome(h.peer_wants_req_no) THEN {Unwrap(h.peer_wants_req_no)} ELSE {})

\* C29: in every order of inputs the handler never sends on a channel whose
\* request number is unset: no call panics on an unset number, and every
\* haves or wants frame written goes out on a recorded request number.
C29_NoSendOnUnsetChannel ==
    \A c \in Conns :
        /\ ~handlers[c].crashed
        /\ blob_input.conn = c
            => \A i \in DOMAIN blob_result.frames :
                  blob_result.frames[i].api = "send_response"
                    => blob_result.frames[i].req_no \in RecordedChannels(handlers[c])

\* Both createWants channels of connection `c` are open and its handler runs.
ChannelsOpen(c) ==
    /\ ~handlers[c].crashed
    /\ IsSome(handlers[c].my_wants_req_no)
    /\ IsSome(handlers[c].peer_wants_req_no)

\* The peer of `c` has announced a want for `b` on open channels: the call
\* just handled is that announcement, or the want is in the wants table.
WantAnnounced(c, b) ==
    /\ ChannelsOpen(c)
    /\ \/ b \in DOMAIN handlers[c].peer_wants
       \/ /\ IsWantsCall(c, handlers[c], blob_input)
          /\ b \in DOMAIN blob_input.op.data.map

\* C31: if a peer announces a want for b on a connection whose channels are
\* both open and b is inserted into the blob store, before or after the
\* announcement, then - the broker delivering the StoreBlob event - the
\* connection eventually sends the peer a have for b.
C31_HaveEventuallySent ==
    \A b \in Blobs :
        (WantAnnounced("A", b) /\ b \in blob_store) ~> (b \in haves_sent["A"])

\* A want recorded before the blob was stored has been answered on the
\* StoreBlob event.
C31_AnsweredOnStoreBlob ==
    \E b \in Blobs :
        /\ blob_input = [conn |-> "A", op |-> StoreBlob(b)]
        /\ b \in DOMAIN handlers["A"].peer_wants
        /\ b \in blob_store
        /\ b \in haves_sent["A"]
        /\ blob_result.frames # <<>>

\* What a call did with a response frame, read off its result: recv_wants
\* broadcasts one RpcBlobsWants event, recv_haves writes blobs.get requests
\* only and broadcasts nothing, recv_blobs_get stores the payload.
HandledAs(res) ==
    CASE res.ret = "Ok(false)" -> "unhandled"
      [] res.ret = "Ok(true)" /\ Len(res.events) = 1 /\ res.events[1].kind = "RpcBlobsWants" -> "wants"
      [] res.ret = "Ok(true)" /\ Len(res.events) = 1 /\ res.events[1].kind = "StoreBlob" -> "payload"
      [] res.ret = "Ok(true)" /\ res.events = <<>>
            /\ (\A i \in DOMAIN res.frames : res.frames[i].api = "blobs_get_req_send") -> "haves"
      [] OTHER -> "failed"

\* C32: a response frame is classified by its request number: on
\* my_wants_req_no it is a wants announcement, on peer_wants_req_no a haves
\* announcement, on the number of a Requested entry a blob payload, and
\* otherwise it is not consumed and the handler is unchanged; a haves
\* announcement is still handled as one when the two channel numbers are
\* numerically equal.
C32_ResponseClassified ==
    [][ \A c \in Conns :
        ( /\ ~handlers[c].crashed
          /\ blob_input'.conn = c
          /\ blob_input'.op.kind = "RpcResponse"
          /\ IsSome(handlers[c].peer_wants_req_no) )
        => LET h == handlers[c]
               n == blob_input'.op.req_no
               isMap == blob_input'.op.data.kind = "map"
               kind == HandledAs(blob_result')
           IN /\ (h.my_wants_req_no = Some(n) /\ h.peer_wants_req_no # Some(n) /\ isMap)
                    => kind = "wants"
              /\ (h.peer_wants_req_no = Some(n) /\ isMap) => kind = "haves"
              /\ (h.my_wants_req_no # Some(n) /\ h.peer_wants_req_no # Some(n)
                    /\ IsRequested(h, n)) => kind = "payload"
              /\ (h.my_wants_req_no # Some(n) /\ h.peer_wants_req_no # Some(n)
                    /\ ~IsRequested(h, n))
                    => (kind = "unhandled" /\ handlers'[c] = h) ]_vars

\* C36: the handler opens its createWants stream exactly once per
\* connection: the first Timer input sends the request and records its
\* number as my_wants_req_no; every later Timer input sends nothing and
\* leaves my_wants_req_no, and the rest of the handler, unchanged.
C36_CreateWantsOnce ==
    [][ \A c \in Conns :
        (~handlers[c].crashed /\ IsEventCall(c, blob_input', "Timer"))
        => LET h == handlers[c] IN
           IF ~h.initialized
           THEN /\ Len(blob_result'.frames) = 1
                /\ blob_result'.frames[1].api = "blob_create_wants_req_send"
                /\ handlers'[c].my_wants_req_no = Some(blob_result'.frames[1].req_no)
                /\ handlers'[c].initialized
           ELSE /\ blob_result'.frames = <<>>
                /\ handlers'[c] = h ]_vars

\* A later Timer input found the stream open and sent nothing.
C36_LaterTimerSilent ==
    /\ blob_input = [conn |-> "A", op |-> TimerInput]
    /\ blob_result.frames = <<>>
    /\ handlers["A"].initialized
    /\ IsSome(handlers["A"].my_wants_req_no)
    /\ next_req_no["A"] > Unwrap(handlers["A"].my_wants_req_no) + 1

\* The request just handled by `c` is a blobs.createWants request.
IsCreateWantsCall(c, in) ==
    in.conn = c /\ in.op.kind = "RpcRequest" /\ in.op.method = "blobs.createWants"

\* C37: on a remote blobs.createWants request the handler records the
\* request number as peer_wants_req_no only if it is still unset; a second
\* request leaves it at its first value; every such request is reported as
\* consumed, writes nothing and leaves the wants table and my_wants_req_no
\* unchanged.
C37_PeerChannelSetOnce ==
    [][ \A c \in Conns :
        (~handlers[c].crashed /\ IsCreateWantsCall(c, blob_input'))
        => LET h == handlers[c] IN
           /\ handlers'[c].peer_wants_req_no =
                 (IF h.peer_wants_req_no = None THEN Some(blob_input'.op.req_no)
                                                ELSE h.peer_wants_req_no)
           /\ blob_result'.ret = "Ok(true)"
           /\ blob_result'.frames = <<>>
           /\ handlers'[c].peer_wants = h.peer_wants
           /\ handlers'[c].my_wants_req_no = h.my_wants_req_no ]_vars

\* A second createWants request, on another number, left the first number
\* in place.
C37_SecondRequestKept ==
    /\ IsCreateWantsCall("A", blob_input)
    /\ IsSome(handlers["A"].peer_wants_req_no)
    /\ blob_input.op.req_no # Unwrap(handlers["A"].peer_wants_req_no)
    /\ blob_result.ret = "Ok(true)"

\* The error response `in` arrives on one of the two wants channels of `h`.
OnWantsChannel(h, in) ==
    Some(in.op.req_no) = h.my_wants_req_no \/ Some(in.op.req_no) = h.peer_wants_req_no

\* C38: an error response on my_wants_req_no or on peer_wants_req_no is
\* reported as consumed, with no handler error and with the wants table and
\* both channel numbers unchanged; an error response on any other request
\* number is not consumed.
C38_ErrorResponseConsumed ==
    [][ \A c \in Conns :
        (~handlers[c].crashed /\ IsEventCall(c, blob_input', "ErrorResponse"))
        => LET h == handlers[c] IN
           /\ blob_result'.ret =
                 (IF OnWantsChannel(h, blob_input') THEN "Ok(true)" ELSE "Ok(false)")
           /\ handlers'[c].peer_wants = h.peer_wants
           /\ handlers'[c].my_wants_req_no = h.my_wants_req_no
           /\ handlers'[c].peer_wants_req_no = h.peer_wants_req_no
           /\ ~handlers'[c].crashed ]_vars

\* An error response on the peer's wants channel was consumed while wants
\* were recorded on the connection.
C38_PeerChannelError ==
    /\ IsEventCall("A", blob_input, "ErrorResponse")
    /\ Some(blob_input.op.req_no) = handlers["A"].peer_wants_req_no
    /\ Some(blob_input.op.req_no) # handlers["A"].my_wants_req_no
    /\ handlers["A"].peer_wants # NewHandler.peer_wants
    /\ blob_result.ret = "Ok(true)"

-----------------------------------------------------------------------------
(* Key-value store (kv.rs) *)

Authors == {"@alice", "@bob"}
Contents == {"x", "y"}

\* Message values offered to append_feed: callers offer two different message
\* values per sequence number for @alice's feed, one for @bob's.
Messages ==
    {m \in [author : Authors, sequence : 1..MaxSeq, content : Contents] :
        m.author = "@bob" => m.content = "x"}

\* msg_val.id(): the hash of the message value
MsgId(msg) == <<msg.author, msg.sequence, msg.content>>

\* sled's insert on one key prefix
Insert(map, k, v) == [x \in DOMAIN map \cup {k} |-> IF x = k THEN v ELSE map[x]]

\* An opened, empty database: latest sequence per author (prefix 0), message
\* KVT per (author, sequence) (prefix 1), message reference per message id
\* (prefix 2), blob status per blob id (prefix 3), peer entry per author
\* (prefix 4).
EmptyDb ==
    [latest_seq |-> <<>>, msg_kvt |-> <<>>, msg_val |-> <<>>, blob |-> <<>>, peer |-> <<>>]

\* kv.rs 169-181
get_latest_seq(d, user_id) ==
    IF user_id \in DOMAIN d.latest_seq THEN Some(d.latest_seq[user_id]) ELSE None

\* kv.rs 185-192
get_msg_kvt(d, user_id, msg_seq) ==
    IF <<user_id, msg_seq>> \in DOMAIN d.msg_kvt
    THEN Some(d.msg_kvt[<<user_id, msg_seq>>]) ELSE None

\* kv.rs 195-208: the message the id refers to, None for an unknown id; the
\* unwrap of line 202 panics when the reference has no KVT.
get_msg_val(d, msg_id) ==
    IF msg_id \in DOMAIN d.msg_val
    THEN LET msg_ref == d.msg_val[msg_id]
             kvt == get_msg_kvt(d, msg_ref.pub_key, msg_ref.seq_num)
         IN  IF IsSome(kvt)
             THEN [result |-> "Ok", value |-> Some(Unwrap(kvt))]
             ELSE [result |-> "panic", value |-> None]
    ELSE [result |-> "Ok", value |-> None]

\* kv.rs 262: the sequence number the next message of the author must carry
NextSeq(d, user_id) ==
    (IF IsSome(get_latest_seq(d, user_id)) THEN Unwrap(get_latest_seq(d, user_id)) ELSE 0) + 1

\* A sequence check that lets a message in ahead of the next sequence number.
InvalidSequenceBelow(msg, seq_num) == msg.sequence < seq_num

\* kv.rs 266
InvalidSequence(msg, seq_num) == msg.sequence # seq_num

\* kv.rs 273-288: the database once the first `n` of the four inserts are done
Written(d, msg, seq_num, n) ==
    LET d1 == IF n >= 1
              THEN [d EXCEPT !.msg_val = Insert(@, MsgId(msg),
                                   [pub_key |-> msg.author, seq_num |-> seq_num])]
              ELSE d
        d2 == IF n >= 2
              THEN [d1 EXCEPT !.msg_kvt = Insert(@, <<msg.author, seq_num>>, msg)]
              ELSE d1
        d3 == IF n >= 3
              THEN [d2 EXCEPT !.latest_seq = Insert(@, msg.author, seq_num)]
              ELSE d2
    IN IF n >= 4 THEN [d3 EXCEPT !.peer = Insert(@, msg.author, seq_num)] ELSE d3

\* Where a store call may fail: nowhere (0), at one of its four inserts
\* (1..4), or at the flush (5).
FailPoints == 0..5

\* An append that announces the change before its writes are known to be
\* done.
append_feed_eager(d, msg, fail) ==
    LET seq_num == NextSeq(d, msg.author) IN
    IF InvalidSequence(msg, seq_num)
    THEN [db |-> d, result |-> "InvalidSequence", events |-> <<>>]
    ELSE IF fail = 0
    THEN [db |-> Written(d, msg, seq_num, 4), result |-> "Ok", events |-> <<msg.author>>]
    ELSE [db |-> Written(d, msg, seq_num, fail - 1), result |-> "Sled", events |-> <<msg.author>>]

\* kv.rs 261-305; `fail` is the step at which sled returns an error.
append_feed(d, msg, fail) ==
    LET seq_num == NextSeq(d, msg.author) IN
    IF InvalidSequence(msg, seq_num)
    THEN [db |-> d, result |-> "InvalidSequence", events |-> <<>>]
    ELSE IF fail = 0
    THEN [db |-> Written(d, msg, seq_num, 4), result |-> "Ok", events |-> <<msg.author>>]
    ELSE [db |-> Written(d, msg, seq_num, fail - 1), result |-> "Sled", events |-> <<>>]

KvInit ==
    /\ db = EmptyDb
    /\ id_changed = [a \in Authors |-> 0]
    /\ kv_op = [op |-> "open"]
    /\ sled_errors = 0

AppendFeed(msg, fail) ==
    LET r == append_feed(db, msg, fail)
    IN  /\ r.result = "Sled" => sled_errors < MaxSledErrors
        /\ r.result # "Sled" => fail = 0       \* a call that reaches no write cannot fail there
        /\ sled_errors' = IF r.result = "Sled" THEN sled_errors + 1 ELSE sled_errors
        /\ db' = r.db
        /\ id_changed' = [a \in Authors |->
                id_changed[a] + Cardinality({i \in DOMAIN r.events : r.events[i] = a})]
        /\ kv_op' = [op |-> "append_feed", msg |-> msg, result |-> r.result]
        /\ UNCHANGED <<ebtVars, blobVars>>

KvNext == \E msg \in Messages, fail \in FailPoints : AppendFeed(msg, fail)

\* Blob ids given to set_blob, named by their place in key order.
BlobKeys == {1, 2}

\* BlobStatus values (kv.rs 30-34)
BlobStatuses == [retrieved : BOOLEAN, users : {<<"u1">>}]

\* kv.rs 8-16: the key prefixes
PREFIX_BLOB == 3
PREFIX_PEER == 4

\* The stored bytes of a value: the CBOR encoding of a BlobStatus
\* (set_blob, kv.rs 144) or the 8 big-endian bytes of a sequence number
\* (set_peer, kv.rs 229).
CborBlob(status) == [enc |-> "cbor", status |-> status]
BeBytes(n) == [enc |-> "u64_be", num |-> n]

\* serde_cbor::from_slice::<BlobStatus> (kv.rs 158): the status the bytes
\* encode, or None when they are no encoding of a BlobStatus.
FromSliceBlobStatus(raw) == IF raw.enc = "cbor" THEN Some(raw.status) ELSE None

\* The authors in the byte order of their keys.
AuthorOrder == <<"@alice", "@bob">>

\* kv.rs 155-156: db.range(&[PREFIX_BLOB]..), every entry whose key is at or
\* above the blob prefix, in key order.  The range has no upper end, so the
\* entries of the higher prefix follow the blob entries.
RangeFrom(d, prefix) ==
    LET blobs == SelectSeq([i \in 1..Cardinality(BlobKeys) |-> i],
                           LAMBDA k : k \in DOMAIN d.blob)
        peers == SelectSeq(AuthorOrder, LAMBDA a : a \in DOMAIN d.peer)
    IN  (IF prefix <= PREFIX_BLOB
         THEN [i \in DOMAIN blobs |->
                 [prefix |-> PREFIX_BLOB, key |-> blobs[i], value |-> CborBlob(d.blob[blobs[i]])]]
         ELSE <<>>)
        \o (IF prefix <= PREFIX_PEER
            THEN [i \in DOMAIN peers |->
                    [prefix |-> PREFIX_PEER, key |-> peers[i], value |-> BeBytes(d.peer[peers[i]])]]
            ELSE <<>>)

\* kv.rs 142-148
set_blob(d, blob_id, status) == [d EXCEPT !.blob = Insert(@, blob_id, status)]

\* kv.rs 132-139
get_blob(d, blob_id) == IF blob_id \in DOMAIN d.blob THEN Some(d.blob[blob_id]) ELSE None

\* kv.rs 151-165: the loop over the range stops with the decoding error at
\* the first entry that is no BlobStatus.
get_pending_blobs(d) ==
    LET items == RangeFrom(d, PREFIX_BLOB)
        bad == {i \in DOMAIN items : FromSliceBlobStatus(items[i].value) = None}
        pending == SelectSeq(items, LAMBDA it : ~Unwrap(FromSliceBlobStatus(it.value)).retrieved)
    IN  IF bad # {}
        THEN [result |-> "Cbor", list |-> <<>>]
        ELSE [result |-> "Ok", list |-> [i \in DOMAIN pending |-> pending[i].key]]

SetBlob(blob_id, status) ==
    /\ db' = set_blob(db, blob_id, status)
    /\ kv_op' = [op |-> "set_blob", blob_id |-> blob_id, result |-> "Ok"]
    /\ UNCHANGED <<id_changed, sled_errors>>
    /\ UNCHANGED <<ebtVars, blobVars>>

GetPendingBlobs ==
    /\ kv_op' = [op |-> "get_pending_blobs", result |-> get_pending_blobs(db).result,
                 list |-> get_pending_blobs(db).list]
    /\ UNCHANGED <<db, id_changed, sled_errors>>
    /\ UNCHANGED <<ebtVars, blobVars>>

\* kv.rs 238-258: one PubKeyAndSeqNum per entry of the peer registry, in key
\* order; the number is computed at line 250.
get_peers(d) ==
    LET items == RangeFrom(d, PREFIX_PEER)
    IN  [i \in DOMAIN items |->
            [pub_key |-> items[i].key,
             seq_num |-> (IF IsSome(get_latest_seq(d, items[i].key))
                          THEN Unwrap(get_latest_seq(d, items[i].key)) ELSE 0) + 1]]

GetPeers ==
    /\ kv_op' = [op |-> "get_peers", result |-> "Ok", list |-> get_peers(db)]
    /\ UNCHANGED <<db, id_changed, sled_errors>>
    /\ UNCHANGED <<ebtVars, blobVars>>

\* The store with its blob-status operations.
StoreNext ==
    \/ \E msg \in Messages, fail \in FailPoints : AppendFeed(msg, fail)
    \/ \E blob_id \in BlobKeys, status \in BlobStatuses : SetBlob(blob_id, status)
    \/ GetPendingBlobs
    \/ GetPeers

-----------------------------------------------------------------------------
(* Key-value store: properties *)

\* The sequence numbers at which a message KVT of the author is stored.
StoredSeqs(d, user_id) == {k[2] : k \in {x \in DOMAIN d.msg_kvt : x[1] = user_id}}

\* The author's latest sequence number as a reader sees it (0 when none).
LatestOf(d, user_id) ==
    IF IsSome(get_latest_seq(d, user_id)) THEN Unwrap(get_latest_seq(d, user_id)) ELSE 0

\* C8: a call of append_feed succeeds only when the message's sequence is the
\* author's latest stored sequence plus one (1 for an unknown author); any
\* other sequence is answered with InvalidSequence, and the call then leaves
\* the database and the IdChanged events as they were.
C8_SequenceChecked ==
    [][ LET msg == kv_op'.msg IN
        /\ kv_op'.result = "Ok" => msg.sequence = NextSeq(db, msg.author)
        /\ msg.sequence # NextSeq(db, msg.author)
             => /\ kv_op'.result = "InvalidSequence"
                /\ db' = db
                /\ id_changed' = id_changed ]_vars

\* A message of an author with stored messages was refused for its sequence
\* number.
C8_Refused ==
    /\ kv_op.op = "append_feed"
    /\ kv_op.result = "InvalidSequence"
    /\ kv_op.msg.author \in DOMAIN db.latest_seq
    /\ kv_op.msg.sequence # LatestOf(db, kv_op.msg.author) + 1
    /\ id_changed[kv_op.msg.author] > 0

\* C9: for every author the latest sequence number is the number of stored
\* messages of that author, and the stored messages sit at 1..latest with
\* nothing above.
C9_DensePrefix ==
    \A a \in Authors :
        /\ LatestOf(db, a) = Cardinality(StoredSeqs(db, a))
        /\ StoredSeqs(db, a) = 1..LatestOf(db, a)

\* C10: a call of append_feed that fails leaves none of its four keys
\* visible with the new values, so every message reference has its KVT and
\* no KVT lies above the latest sequence number.
C10_AtomicAppend ==
    /\ (kv_op.op = "append_feed" /\ kv_op.result = "Sled")
         => /\ MsgId(kv_op.msg) \notin DOMAIN db.msg_val
            /\ <<kv_op.msg.author, kv_op.msg.sequence>> \notin DOMAIN db.msg_kvt
            /\ LatestOf(db, kv_op.msg.author) < kv_op.msg.sequence
            /\ (kv_op.msg.author \in DOMAIN db.peer => db.peer[kv_op.msg.author] < kv_op.msg.sequence)
    /\ \A id \in DOMAIN db.msg_val :
            IsSome(get_msg_kvt(db, db.msg_val[id].pub_key, db.msg_val[id].seq_num))
    /\ \A k \in DOMAIN db.msg_kvt : k[2] <= LatestOf(db, k[1])

\* C25: a successful append_feed sends exactly one IdChanged(author), with
\* all four writes done; a call that fails - at the sequence check, at any of
\* the four writes or at the flush - sends none.
C25_IdChangedAfterFlush ==
    [][ LET msg == kv_op'.msg IN
        /\ kv_op'.result = "Ok"
             => /\ id_changed' = [id_changed EXCEPT ![msg.author] = @ + 1]
                /\ MsgId(msg) \in DOMAIN db'.msg_val
                /\ <<msg.author, msg.sequence>> \in DOMAIN db'.msg_kvt
                /\ get_latest_seq(db', msg.author) = Some(msg.sequence)
                /\ msg.author \in DOMAIN db'.peer /\ db'.peer[msg.author] = msg.sequence
        /\ kv_op'.result # "Ok" => id_changed' = id_changed ]_vars

\* An author's second message has been appended and announced after a call
\* that failed in sled.
C25_SecondAnnounced ==
    /\ kv_op.op = "append_feed" /\ kv_op.result = "Ok"
    /\ kv_op.msg.sequence = 2
    /\ id_changed[kv_op.msg.author] = 2
    /\ sled_errors = 1

\* C26: get_msg_val of the id of a message appended by a successful
\* append_feed returns that message from then on, and get_msg_val of an id
\* never appended returns None.
C26_MsgValRoundTrip ==
    [][ \A m \in Messages :
          LET before == get_msg_val(db, MsgId(m))
              after == get_msg_val(db', MsgId(m))
              appended == kv_op'.op = "append_feed" /\ kv_op'.msg = m /\ kv_op'.result = "Ok"
          IN  /\ appended => after = [result |-> "Ok", value |-> Some(m)]
              /\ before = [result |-> "Ok", value |-> Some(m)] => after = before
              /\ (before = [result |-> "Ok", value |-> None] /\ ~appended)
                    => after = before ]_vars

\* The peers of the registry in key order.
RegisteredPeers(d) == SelectSeq(AuthorOrder, LAMBDA a : a \in DOMAIN d.peer)

\* C33: get_peers returns, for every peer in the peer registry, the peer's
\* public key with its latest stored sequence number: the value
\* get_latest_seq reports for that key, 0 when there is none.
C33_PeersWithLatestSeq ==
    kv_op.op = "get_peers"
        => /\ kv_op.result = "Ok"
           /\ kv_op.list = [i \in DOMAIN RegisteredPeers(db) |->
                                [pub_key |-> RegisteredPeers(db)[i],
                                 seq_num |-> LatestOf(db, RegisteredPeers(db)[i])]]

\* The blob ids whose stored status has retrieved = false, in key order.
PendingInOrder(d) ==
    SelectSeq([i \in 1..Cardinality(BlobKeys) |-> i],
              LAMBDA k : k \in DOMAIN d.blob /\ ~d.blob[k].retrieved)

\* C11: whatever set_blob and append_feed calls came before, a call of
\* get_pending_blobs succeeds and returns exactly the blob ids whose status
\* has retrieved = false, in ascending key order.
C11_PendingBlobsListed ==
    kv_op.op = "get_pending_blobs"
        => (kv_op.result = "Ok" /\ kv_op.list = PendingInOrder(db))

-----------------------------------------------------------------------------
(* Specifications *)

Init == EbtInit /\ BlobInit /\ KvInit

EbtSpec == Init /\ [][EbtNext]_vars

\* The session task runs whenever it has something to do; time passes.  The
\* peer, the other actors and the termination signal owe the session nothing.
EbtLiveSpec ==
    /\ Init /\ [][EbtNext]_vars
    /\ (\A role \in Roles : WF_vars(Start(role))) /\ WF_vars(StepTerminate) /\ WF_vars(StepLoopback) /\ WF_vars(Tick)

\* The session on a working connection, fed requests by its peer.
RequestSpec == Init /\ [][RequestNext]_vars

\* One connection's handler, fed any frame by its peer and any broker message.
BlobSpec == Init /\ [][BlobNext]_vars

\* The connection actor takes the broker messages queued for it.
BlobLiveSpec == Init /\ [][InsertNext]_vars /\ WF_vars(BlobMsg("A"))

\* Two connections whose peers follow the protocol, and the broker between them.
PairSpec == Init /\ [][PairNext]_vars

\* The store, called by the node's actors one call at a time.
KvSpec == Init /\ [][KvNext]_vars

\* The store with feeds and blob statuses.
StoreSpec == Init /\ [][StoreNext]_vars

====
